---- MODULE Spec2Model ----
(***************************************************************************)
(* Model of src/bot.py: the GeminiVerifier client (check_link, verify),    *)
(* the Stats recorder and the remote verification resource they talk to.   *)
(* Strings that the code inspects character by character (the reference    *)
(* URL) are sequences of one-character strings; messages built with        *)
(* f-strings are sequences of their parts.                                 *)
(***************************************************************************)
EXTENDS Integers, Sequences, FiniteSets, TLC

VARIABLES
    stats,          \* Stats.data of the module-level stats object
    remote,         \* what a GET on /verification/{id} answers: status and currentStep
    url,            \* GeminiVerifier.url
    vid,            \* GeminiVerifier.vid
    fingerprint,    \* GeminiVerifier.fingerprint
    org,            \* GeminiVerifier.org
    pc,             \* position of the running method
    op,             \* the method called last: "check_link" or "verify"
    org_arg,        \* the org parameter of verify
    current_step,   \* local current_step of verify / step of check_link
    doc,            \* local doc of verify
    upload_url,     \* local upload_url of verify
    exc,            \* text of the exception being raised
    result,         \* the value returned by the method
    trace,          \* everything the running method did, in order
    lastCheck,      \* remote and result of the latest check_link that returned
    prevCheck,      \* remote and result of the check_link that returned before it
    opsLeft,        \* method calls the caller still makes
    threads,        \* the frame of Stats.record in each handler thread
    dicts,          \* which dict object data["orgs"] holds under each name
    user_sessions,  \* the module-level user_sessions: chat id to session dict
    checked         \* the references check_link found valid for a handler

vars == <<stats, remote, url, vid, fingerprint, org, pc, op, org_arg,
          current_step, doc, upload_url, exc, result, trace,
          lastCheck, prevCheck, opsLeft, threads, dicts, user_sessions, checked>>

None == "None"

\* ------------------------------------------------------------------ bounds
\* longest token following the marker in a reference string
MaxTok == 1
\* check_link calls in one behaviour of SpecLink
MaxChecks == 2
\* stats.record calls in one behaviour of SpecRecord
MaxRecords == 4
\* handler threads that call stats.record at the same time in SpecThreads
NumThreads == 2
\* verify calls the chat may start in one behaviour of SpecBot
MaxRuns == 1

\* --------------------------------------------------- reference strings
Marker == <<"v","e","r","i","f","i","c","a","t","i","o","n","I","d","=">>
MarkerUpper == <<"V","E","R","I","F","I","C","A","T","I","O","N","I","D","=">>
MarkerNoEq == <<"v","e","r","i","f","i","c","a","t","i","o","n","I","d">>

UpperLetters == <<"A","B","C","D","E","F","I","N","O","R","T","V">>
LowerLetters == <<"a","b","c","d","e","f","i","n","o","r","t","v">>

\* str.lower() of one character, as re.IGNORECASE folds it
Lower(c) ==
    IF \E i \in 1..Len(UpperLetters) : UpperLetters[i] = c
    THEN LowerLetters[CHOOSE i \in 1..Len(UpperLetters) : UpperLetters[i] = c]
    ELSE c

\* the character class [a-f0-9] under re.IGNORECASE
IsHex(c) == Lower(c) \in {"a","b","c","d","e","f","0","1","2","3","4","5","6","7","8","9"}

\* the literal "verificationId=" matches at position i, case folded
MarkerAt(u, i) ==
    /\ i + Len(Marker) - 1 <= Len(u)
    /\ \A k \in 1..Len(Marker) : Lower(u[i + k - 1]) = Lower(Marker[k])

\* the whole pattern matches at position i: the marker and at least one hex digit
MatchAt(u, i) ==
    /\ MarkerAt(u, i)
    /\ i + Len(Marker) <= Len(u)
    /\ IsHex(u[i + Len(Marker)])

\* the greedy group ([a-f0-9]+) starting at position j
RECURSIVE HexRun(_, _)
HexRun(u, j) ==
    IF j <= Len(u) /\ IsHex(u[j]) THEN <<u[j]>> \o HexRun(u, j + 1) ELSE <<>>

\* Optional[...] values: None is the empty tuple, a value v is <<v>>
NoneVal == <<>>
Some(v) == <<v>>

\* truthiness of an Optional[str]: None and "" are falsy
TruthyStr(o) == o # NoneVal /\ o[1] # <<>>

\* truthiness of an Optional[dict] holding a dict with keys
TruthyDict(o) == o # NoneVal

ParseIdAnyToken(u) ==
    IF \E i \in 1..Len(u) : MarkerAt(u, i)
    THEN LET i == CHOOSE i \in 1..Len(u) :
                    MarkerAt(u, i) /\ \A j \in 1..(i - 1) : ~MarkerAt(u, j)
         IN  Some(SubSeq(u, i + Len(Marker), Len(u)))
    ELSE NoneVal

\* GeminiVerifier._parse_id: re.search takes the leftmost match
ParseId(u) ==
    IF \E i \in 1..Len(u) : MatchAt(u, i)
    THEN LET i == CHOOSE i \in 1..Len(u) :
                    MatchAt(u, i) /\ \A j \in 1..(i - 1) : ~MatchAt(u, j)
         IN  Some(HexRun(u, i + Len(Marker)))
    ELSE NoneVal

TokChars == {"a", "F", "g"}

RECURSIVE SeqsUpTo(_, _)
SeqsUpTo(S, n) ==
    IF n = 0 THEN {<<>>}
    ELSE LET shorter == SeqsUpTo(S, n - 1)
         IN  shorter \cup {Append(s, c) : s \in shorter, c \in S}

\* the reference strings a caller may pass to GeminiVerifier(url)
Urls ==
    {m \o t : m \in {Marker, MarkerUpper, MarkerNoEq, <<>>}, t \in SeqsUpTo(TokChars, MaxTok)}
    \cup {Marker \o <<"g", "&">> \o Marker \o <<"F", "9", "&">>}

\* ------------------------------------------------------------ formatting
Digits == <<"0","1","2","3","4","5","6","7","8","9">>

\* str(n) of a non-negative integer, one character per element
RECURSIVE Str(_)
Str(n) == IF n < 10 THEN <<Digits[n + 1]>> ELSE Append(Str(n \div 10), Digits[(n % 10) + 1])

\* ----------------------------------------------------------------- Stats
\* Stats._load with no stats.json
EmptyStats == [total |-> 0, success |-> 0, failed |-> 0, orgs |-> <<>>]

Key(success) == IF success THEN "success" ELSE "failed"

\* a record that starts the counters of the organization anew on every call
RecordResetsOrg(data, name, success) ==
    LET d1 == [data EXCEPT !.total = @ + 1]
        d2 == [d1 EXCEPT ![Key(success)] = @ + 1]
        orgs1 == (name :> [success |-> 0, failed |-> 0]) @@ d2.orgs
    IN  [d2 EXCEPT !.orgs = [orgs1 EXCEPT ![name][Key(success)] = @ + 1]]

\* Stats.record: the data it leaves behind (and saves)
Record(data, name, success) ==
    LET d1 == [data EXCEPT !.total = @ + 1]
        d2 == [d1 EXCEPT ![Key(success)] = @ + 1]
        orgs1 == IF name \in DOMAIN d2.orgs THEN d2.orgs
                 ELSE (name :> [success |-> 0, failed |-> 0]) @@ d2.orgs
    IN  [d2 EXCEPT !.orgs = [orgs1 EXCEPT ![name][Key(success)] = @ + 1]]

\* ----------------------------------------------------- environment values
\* organisations as handle_uni_callback builds them
Orgs == {[id |-> 1, idExtended |-> <<"1">>, name |-> "MIT"],
         [id |-> 2, idExtended |-> <<"2">>, name |-> "UCLA"]}

\* values of generate_fingerprint
Fingerprints == {"fp1", "fp2"}

\* values of generate_transcript: PNG bytes
Docs == {<<137, 80>>, <<137, 80, 78>>}

\* the applicant data handle_uni_callback passes to verify
UserData == [firstName |-> "Ann", lastName |-> "Lee", email |-> "ann@mit.edu",
             birthDate |-> "2002-05-15"]

\* values of currentStep; "" also stands for an absent field
Steps == {"collectStudentPersonalInfo", "docUpload", "sso", "success",
          "pending", "error", "emailLoop", ""}

\* HTTP statuses of the verification service
GetStatuses == {200, 404}
SubmitStatuses == {200, 204, 500}
CallStatuses == {200, 500}
\* HTTP statuses of the pre-signed upload target
PutStatuses == {199, 200, 299, 300}

ErrorIdLists == {<<>>, <<"expiredVerification">>}
UploadUrls == {"https://s3/u1"}

Remotes == [status : GetStatuses, step : Steps]

\* a parsed response body; kind "list" is a JSON body that is no object
Body(kind, step, errorIds, documents) ==
    [kind |-> kind, currentStep |-> step, errorIds |-> errorIds, documents |-> documents]

Endpoint(v, stepName) ==
    IF stepName = "" THEN <<"/verification/", v>>
    ELSE <<"/verification/", v, "/step/", stepName>>

\* what the service may answer to a request: status and parsed body
ServerAnswers(method, stepName) ==
    IF method = "GET"
    THEN {[status |-> remote.status, data |-> Body(k, remote.step, <<>>, <<>>)] :
              k \in {"dict", "list"}}
    ELSE IF stepName = "collectStudentPersonalInfo"
    THEN {[status |-> st, data |-> Body("dict", s, <<>>, <<>>)] :
              st \in SubmitStatuses, s \in Steps}
         \cup {[status |-> 200, data |-> Body("dict", "error", e, <<>>)] : e \in ErrorIdLists}
         \cup {[status |-> 200, data |-> Body("list", "", <<>>, <<>>)]}
    ELSE IF stepName = "docUpload"
    THEN {[status |-> st, data |-> Body("dict", "", <<>>, d)] :
              st \in CallStatuses,
              d \in {<<>>, <<NoneVal>>} \cup {<<Some(u)>> : u \in UploadUrls}}
         \cup {[status |-> 200, data |-> Body("list", "", <<>>, <<>>)]}
    ELSE {[status |-> st, data |-> Body("dict", "", <<>>, <<>>)] : st \in CallStatuses}

\* ----------------------------------------------------------------- trace
\* random_delay returned (ok) or raised
EvDelay(ok) == [ev |-> "delay", ok |-> ok]
\* client.request was called; status 0 and a text in raised when it raised,
\* else the status and the parsed body of the answer
EvReq(method, ep, body, status, data, raised) ==
    [ev |-> "req", method |-> method, ep |-> ep, body |-> body,
     status |-> status, data |-> data, raised |-> raised]
\* generate_transcript was called; the empty doc when it raised
EvGen(d) == [ev |-> "gen", doc |-> d]
\* client.put was called; status 0 when it raised
EvPut(u, d, status) == [ev |-> "put", url |-> u, data |-> d, status |-> status]
\* stats.record was called
EvRecord(name, success) == [ev |-> "record", org |-> name, success |-> success]

NoData == Body("dict", "", <<>>, <<>>)
TransportErrors == {"timeout"}

\* data.get(...) on a body that is no dict raises AttributeError
GetRaises(data) == data.kind # "dict"
AttributeErrorText == <<"'list' object has no attribute 'get'">>

\* a _request that sends without the pacing delay
RequestUnpaced(method, stepName, body) ==
    LET ep == Endpoint(vid[1], stepName)
    IN  {[events |-> <<EvReq(method, ep, body, 0, NoData, <<"Request failed: ", e>>)>>,
          raised |-> <<"Request failed: ", e>>, sent |-> TRUE,
          status |-> 0, data |-> NoData] : e \in TransportErrors}
        \cup {[events |-> <<EvReq(method, ep, body, a.status, a.data, <<>>)>>,
               raised |-> <<>>, sent |-> TRUE,
               status |-> a.status, data |-> a.data] : a \in ServerAnswers(method, stepName)}

\* GeminiVerifier._request: the pacing delay, then the request.  Each outcome
\* lists the events it caused and either the exception raised or (data, status).
Request(method, stepName, body) ==
    LET ep == Endpoint(vid[1], stepName)
    IN  {[events |-> <<EvDelay(TRUE),
                       EvReq(method, ep, body, 0, NoData, <<"Request failed: ", e>>)>>,
          raised |-> <<"Request failed: ", e>>, sent |-> TRUE,
          status |-> 0, data |-> NoData] : e \in TransportErrors}
        \cup {[events |-> <<EvDelay(FALSE)>>, raised |-> <<"sleep interrupted">>,
               sent |-> FALSE, status |-> 0, data |-> NoData]}
        \cup {[events |-> <<EvDelay(TRUE),
                            EvReq(method, ep, body, a.status, a.data, <<>>)>>,
               raised |-> <<>>, sent |-> TRUE,
               status |-> a.status, data |-> a.data] : a \in ServerAnswers(method, stepName)}

UploadS3NoPut(u, d) == {[events |-> <<>>, ok |-> TRUE]}

\* an upload that takes every answered PUT for a success
UploadS3AnyStatus(u, d) ==
    IF u = NoneVal
    THEN {[events |-> <<>>, ok |-> FALSE]}
    ELSE {[events |-> <<EvPut(u[1], d, 0)>>, ok |-> FALSE]}
         \cup {[events |-> <<EvPut(u[1], d, st)>>, ok |-> TRUE] : st \in PutStatuses}

\* GeminiVerifier._upload_s3: the PUT to the pre-signed URL and its verdict.
\* client.put(None, ...) raises before anything is sent.
UploadS3(u, d) ==
    IF u = NoneVal
    THEN {[events |-> <<>>, ok |-> FALSE]}
    ELSE {[events |-> <<EvPut(u[1], d, 0)>>, ok |-> FALSE]}
         \cup {[events |-> <<EvPut(u[1], d, st)>>, ok |-> (200 <= st /\ st < 300)] :
                   st \in PutStatuses}

\* the resource after a request reached the service: a DELETE moves it anywhere.
\* What a POST does to it shows only in a later method call: RemoteChange.
RemoteAfter(method, sent) ==
    IF sent /\ method = "DELETE" THEN Remotes ELSE {remote}

\* ------------------------------------------------------------- results
NoResult == [pending |-> TRUE]

Failure(text) == [success |-> FALSE, error |-> text]

InstantSuccessNotInstant ==
    [success |-> TRUE, instant |-> FALSE,
     message |-> <<"Verified instantly! No document needed.">>]

\* verify, lines 275-279
InstantSuccess ==
    [success |-> TRUE, instant |-> TRUE,
     message |-> <<"Verified instantly! No document needed.">>]

UploadSuccess(d) ==
    [success |-> TRUE, instant |-> FALSE,
     message |-> <<"Document uploaded! Wait 24-48h for manual review.">>,
     document |-> d]

SubmittedSuccessFails(step) ==
    [success |-> FALSE, error |-> <<"Unknown step: ", step>>]

\* verify, line 313: the return after the dispatch
SubmittedSuccess(step) ==
    [success |-> TRUE, instant |-> FALSE, message |-> <<"Submitted (step: ", step, ")">>]

\* ----------------------------------------------------------------- Init
Init ==
    /\ stats = EmptyStats
    /\ remote \in Remotes
    /\ url = <<>>
    /\ vid = NoneVal
    /\ fingerprint = None
    /\ org = NoneVal
    /\ pc = "idle"
    /\ op = None
    /\ org_arg = NoneVal
    /\ current_step = ""
    /\ doc = <<>>
    /\ upload_url = NoneVal
    /\ exc = <<>>
    /\ result = NoResult
    /\ trace = <<>>
    /\ lastCheck = NoneVal
    /\ prevCheck = NoneVal
    /\ opsLeft = 1
    /\ threads = <<>>
    /\ dicts = <<>>
    /\ user_sessions = <<>>
    /\ checked = {}

\* no method of the verifier is running
AtRest == pc \in {"ready", "done", "raised"}

\* the locals of a method call that starts
FreshLocals ==
    /\ current_step' = ""
    /\ doc' = <<>>
    /\ upload_url' = NoneVal
    /\ exc' = <<>>

\* GeminiVerifier.__init__
NewVerifier(u, fp) ==
    /\ pc = "idle"
    /\ url' = u
    /\ vid' = ParseId(u)
    /\ fingerprint' = fp
    /\ org' = NoneVal
    /\ pc' = "ready"
    /\ op' = None
    /\ org_arg' = NoneVal
    /\ FreshLocals
    /\ result' = NoResult
    /\ trace' = <<>>
    /\ lastCheck' = NoneVal
    /\ prevCheck' = NoneVal
    /\ UNCHANGED <<stats, remote, opsLeft, threads, dicts, user_sessions, checked>>

\* the service or another client moves the resource between two method calls
RemoteChange(r) ==
    /\ pc \in {"done", "raised"}
    /\ opsLeft > 0
    /\ r # remote
    /\ remote' = r
    /\ UNCHANGED <<stats, url, vid, fingerprint, org, pc, op, org_arg, current_step,
                   doc, upload_url, exc, result, trace, lastCheck, prevCheck, opsLeft,
                   threads, dicts, user_sessions, checked>>

\* ------------------------------------------------------------ check_link
ValidSteps == {"collectStudentPersonalInfo", "docUpload", "sso"}

ClassifyPendingValid(step) ==
    IF step \in {"collectStudentPersonalInfo", "docUpload", "sso", "pending"}
    THEN [valid |-> TRUE, step |-> step]
    ELSE IF step = "success" THEN [valid |-> FALSE, error |-> <<"Already verified">>]
    ELSE [valid |-> FALSE, error |-> <<"Invalid step: ", step>>]

\* check_link, lines 222-230: the classification of the step
Classify(step) ==
    IF step \in ValidSteps THEN [valid |-> TRUE, step |-> step]
    ELSE IF step = "success" THEN [valid |-> FALSE, error |-> <<"Already verified">>]
    ELSE IF step = "pending" THEN [valid |-> FALSE, error |-> <<"Already pending review">>]
    ELSE [valid |-> FALSE, error |-> <<"Invalid step: ", step>>]

CheckLinkDeletes == "DELETE"

\* the HTTP method of check_link's only request
CheckLinkMethod == "GET"

\* GeminiVerifier.check_link, the whole call
CheckLink ==
    /\ AtRest
    /\ opsLeft > 0
    /\ opsLeft' = opsLeft - 1
    /\ op' = "check_link"
    /\ org_arg' = NoneVal
    /\ doc' = <<>>
    /\ upload_url' = NoneVal
    /\ IF ~TruthyStr(vid)
       THEN /\ result' = [valid |-> FALSE, error |-> <<"Invalid URL">>]
            /\ pc' = "done"
            /\ trace' = <<>>
            /\ current_step' = ""
            /\ exc' = <<>>
            /\ remote' = remote
       ELSE \E o \in Request(CheckLinkMethod, "", NoneVal) :
            \E r \in RemoteAfter(CheckLinkMethod, o.sent) :
               /\ trace' = o.events
               /\ remote' = r
               /\ IF o.raised # <<>>
                  THEN /\ exc' = o.raised
                       /\ pc' = "raised"
                       /\ result' = NoResult
                       /\ current_step' = ""
                  ELSE IF o.status # 200
                  THEN /\ result' = [valid |-> FALSE, error |-> <<"HTTP ">> \o Str(o.status)]
                       /\ pc' = "done"
                       /\ exc' = <<>>
                       /\ current_step' = ""
                  ELSE IF GetRaises(o.data)
                  THEN /\ exc' = AttributeErrorText
                       /\ pc' = "raised"
                       /\ result' = NoResult
                       /\ current_step' = ""
                  ELSE /\ current_step' = o.data.currentStep
                       /\ result' = Classify(o.data.currentStep)
                       /\ pc' = "done"
                       /\ exc' = <<>>
    /\ IF pc' = "done"
       THEN /\ prevCheck' = lastCheck
            /\ lastCheck' = Some([remote |-> remote', result |-> result'])
       ELSE UNCHANGED <<lastCheck, prevCheck>>
    /\ UNCHANGED <<stats, url, vid, fingerprint, org, threads, dicts, user_sessions, checked>>

\* ---------------------------------------------------------------- verify
\* what verify leaves alone while it runs
VerifyFrame ==
    UNCHANGED <<url, vid, fingerprint, op, org_arg, lastCheck, prevCheck, opsLeft,
                threads, dicts, user_sessions, checked>>

RaiseUncaught(events, text) ==
    /\ trace' = trace \o events
    /\ exc' = text
    /\ pc' = "raised"
    /\ UNCHANGED <<stats, result, current_step, doc, upload_url, org>>

\* an exception is raised inside the try block of verify
Raise(events, text) ==
    /\ trace' = trace \o events
    /\ exc' = text
    /\ pc' = "v_except"
    /\ UNCHANGED <<stats, result, current_step, doc, upload_url, org>>

\* return res with no call of stats.record
Return(events, res) ==
    /\ trace' = trace \o events
    /\ result' = res
    /\ pc' = "done"
    /\ UNCHANGED <<stats, exc, current_step, doc, upload_url, org>>

\* a return that calls stats.record before the calls of its step
RecordReturnEarly(events, name, success, res) ==
    /\ trace' = trace \o <<EvRecord(name, success)>> \o events
    /\ stats' = Record(stats, name, success)
    /\ result' = res
    /\ pc' = "done"
    /\ UNCHANGED <<exc, current_step, doc, upload_url, org>>

\* stats.record(name, success), then return res
RecordReturn(events, name, success, res) ==
    /\ trace' = trace \o events \o <<EvRecord(name, success)>>
    /\ stats' = Record(stats, name, success)
    /\ result' = res
    /\ pc' = "done"
    /\ UNCHANGED <<exc, current_step, doc, upload_url, org>>

\* move on inside verify
Goto(events, label) ==
    /\ trace' = trace \o events
    /\ pc' = label
    /\ UNCHANGED <<stats, exc, result, org>>

\* a submission that draws a new fingerprint for the request
SubmitBodyRegenerates(o) ==
    Some([firstName |-> UserData.firstName, lastName |-> UserData.lastName,
          birthDate |-> UserData.birthDate, email |-> UserData.email,
          organization |-> o,
          deviceFingerprintHash |-> CHOOSE f \in Fingerprints : f # fingerprint])

\* the body of the personal-info submission, lines 243-259
SubmitBody(o) ==
    Some([firstName |-> UserData.firstName, lastName |-> UserData.lastName,
          birthDate |-> UserData.birthDate, email |-> UserData.email,
          organization |-> o, deviceFingerprintHash |-> fingerprint])

\* the body of the upload-slot request, line 290
UploadBody(d) ==
    Some([fileName |-> "transcript.png", mimeType |-> "image/png", fileSize |-> Len(d)])

\* verify, lines 232-237: the reference check and the binding of self.org
VerifyBegin(o) ==
    /\ AtRest
    /\ opsLeft > 0
    /\ opsLeft' = opsLeft - 1
    /\ op' = "verify"
    /\ org_arg' = Some(o)
    /\ FreshLocals
    /\ trace' = <<>>
    /\ IF ~TruthyStr(vid)
       THEN /\ result' = Failure(<<"Invalid verification URL">>)
            /\ pc' = "done"
            /\ org' = org
       ELSE /\ result' = NoResult
            /\ pc' = "v_probe"
            /\ org' = Some(o)
    /\ UNCHANGED <<stats, remote, url, vid, fingerprint, lastCheck, prevCheck,
                   threads, dicts, user_sessions, checked>>

\* line 240: the step verify takes from the first probe
ProbedStep(status, data) == IF status = 200 THEN data.currentStep ELSE ""

\* a verify that submits the personal information whatever the probe said
AfterProbeAlwaysSubmits(step) == "v_submit"

\* line 242: the personal-info submission is made on this step only
AfterProbe(step) ==
    IF step = "collectStudentPersonalInfo" THEN "v_submit" ELSE "v_dispatch"

\* verify, lines 239-242: the first probe
VerifyProbe ==
    /\ pc = "v_probe"
    /\ \E o \in Request("GET", "", NoneVal) :
          IF o.raised # <<>> THEN Raise(o.events, o.raised)
          ELSE IF o.status = 200 /\ GetRaises(o.data)
          THEN Raise(o.events, AttributeErrorText)
          ELSE /\ current_step' = ProbedStep(o.status, o.data)
               /\ Goto(o.events, AfterProbe(ProbedStep(o.status, o.data)))
               /\ UNCHANGED <<doc, upload_url>>
    /\ UNCHANGED remote
    /\ VerifyFrame

\* verify, lines 243-271: the personal-info submission
VerifySubmit ==
    /\ pc = "v_submit"
    /\ \E o \in Request("POST", "collectStudentPersonalInfo", SubmitBody(org_arg[1])) :
       \E r \in RemoteAfter("POST", o.sent) :
          /\ remote' = r
          /\ IF o.raised # <<>> THEN Raise(o.events, o.raised)
             ELSE IF o.status # 200
             THEN RecordReturn(o.events, org_arg[1].name, FALSE,
                               Failure(<<"Submit failed: ">> \o Str(o.status)))
             ELSE IF GetRaises(o.data) THEN Raise(o.events, AttributeErrorText)
             ELSE IF o.data.currentStep = "error"
             THEN RecordReturn(o.events, org_arg[1].name, FALSE,
                               Failure(<<"Error: ">> \o o.data.errorIds))
             ELSE /\ current_step' = o.data.currentStep
                  /\ Goto(o.events, "v_dispatch")
                  /\ UNCHANGED <<doc, upload_url>>
    /\ VerifyFrame

\* verify, lines 273-281: the success and sso branches
VerifyDispatch ==
    /\ pc = "v_dispatch"
    /\ IF current_step = "success"
       THEN RecordReturn(<<>>, org_arg[1].name, TRUE, InstantSuccess)
       ELSE /\ Goto(<<>>, IF current_step = "sso" THEN "v_sso" ELSE "v_doccheck")
            /\ UNCHANGED <<current_step, doc, upload_url>>
    /\ UNCHANGED remote
    /\ VerifyFrame

\* verify, line 282: the DELETE on the sso step, whose answer is dropped
VerifySsoDelete ==
    /\ pc = "v_sso"
    /\ \E o \in Request("DELETE", "sso", NoneVal) :
       \E r \in RemoteAfter("DELETE", o.sent) :
          /\ remote' = r
          /\ IF o.raised # <<>> THEN Raise(o.events, o.raised)
             ELSE /\ Goto(o.events, "v_reprobe")
                  /\ UNCHANGED <<current_step, doc, upload_url>>
    /\ VerifyFrame

AfterReprobeLoops == "v_dispatch"

\* where verify goes on after the re-probe: line 286, past the sso branch
\* a re-probe that hands the step to the personal-info submission
AfterReprobeSubmits == "v_submit"

AfterReprobe == "v_doccheck"

\* verify, lines 283-284: the re-probe, whose status is dropped
VerifyReprobe ==
    /\ pc = "v_reprobe"
    /\ \E o \in Request("GET", "", NoneVal) :
          IF o.raised # <<>> THEN Raise(o.events, o.raised)
          ELSE IF GetRaises(o.data) THEN Raise(o.events, AttributeErrorText)
          ELSE /\ current_step' = o.data.currentStep
               /\ Goto(o.events, AfterReprobe)
               /\ UNCHANGED <<doc, upload_url>>
    /\ UNCHANGED remote
    /\ VerifyFrame

\* verify, lines 286 and 313: the docUpload branch or the final return
VerifyDocCheck ==
    /\ pc = "v_doccheck"
    /\ IF current_step = "docUpload"
       THEN /\ Goto(<<>>, "v_gen")
            /\ UNCHANGED <<current_step, doc, upload_url>>
       ELSE Return(<<>>, SubmittedSuccess(current_step))
    /\ UNCHANGED remote
    /\ VerifyFrame

\* verify, line 287: generate_transcript returns the bytes or raises
VerifyGen ==
    /\ pc = "v_gen"
    /\ \/ \E d \in Docs :
             /\ doc' = d
             /\ Goto(<<EvGen(d)>>, "v_slot")
             /\ UNCHANGED <<current_step, upload_url>>
       \/ Raise(<<EvGen(<<>>)>>, <<"cannot render transcript">>)
    /\ UNCHANGED remote
    /\ VerifyFrame

\* verify, lines 290-297: the upload-slot request
VerifySlot ==
    /\ pc = "v_slot"
    /\ \E o \in Request("POST", "docUpload", UploadBody(doc)) :
       \E r \in RemoteAfter("POST", o.sent) :
          /\ remote' = r
          /\ IF o.raised # <<>> THEN Raise(o.events, o.raised)
             ELSE IF GetRaises(o.data) THEN Raise(o.events, AttributeErrorText)
             ELSE IF o.data.documents = <<>>
             THEN RecordReturn(o.events, org_arg[1].name, FALSE, Failure(<<"No upload URL">>))
             ELSE /\ upload_url' = o.data.documents[1]
                  /\ Goto(o.events, "v_put")
                  /\ UNCHANGED <<current_step, doc>>
    /\ VerifyFrame

\* verify, lines 298-300: the PUT of the bytes
VerifyPut ==
    /\ pc = "v_put"
    /\ \E o \in UploadS3(upload_url, doc) :
          IF ~o.ok
          THEN RecordReturn(o.events, org_arg[1].name, FALSE, Failure(<<"Upload failed">>))
          ELSE /\ Goto(o.events, "v_complete")
               /\ UNCHANGED <<current_step, doc, upload_url>>
    /\ UNCHANGED remote
    /\ VerifyFrame

\* verify, lines 302-311: the completion call, whose answer is dropped
VerifyComplete ==
    /\ pc = "v_complete"
    /\ \E o \in Request("POST", "completeDocUpload", NoneVal) :
       \E r \in RemoteAfter("POST", o.sent) :
          /\ remote' = r
          /\ IF o.raised # <<>> THEN Raise(o.events, o.raised)
             ELSE RecordReturn(o.events, org_arg[1].name, TRUE, UploadSuccess(doc))
    /\ VerifyFrame

\* verify, lines 315-318: the except clause
VerifyExcept ==
    /\ pc = "v_except"
    /\ IF TruthyDict(org)
       THEN /\ trace' = trace \o <<EvRecord(org[1].name, FALSE)>>
            /\ stats' = Record(stats, org[1].name, FALSE)
       ELSE UNCHANGED <<trace, stats>>
    /\ result' = Failure(exc)
    /\ pc' = "done"
    /\ UNCHANGED <<remote, exc, current_step, doc, upload_url, org>>
    /\ VerifyFrame

\* ------------------------------------------------------------------ Next
Next ==
    \/ \E u \in Urls, fp \in Fingerprints : NewVerifier(u, fp)
    \/ CheckLink
    \/ \E o \in Orgs : VerifyBegin(o)
    \/ VerifyProbe
    \/ VerifySubmit
    \/ VerifyDispatch
    \/ VerifySsoDelete
    \/ VerifyReprobe
    \/ VerifyDocCheck
    \/ VerifyGen
    \/ VerifySlot
    \/ VerifyPut
    \/ VerifyComplete
    \/ VerifyExcept

\* one handler (lines 398-399, 496-497): a verifier is built and one of its
\* methods is called
Spec == Init /\ [][Next]_vars

\* the same, the method running on: verify is straight-line blocking code, each
\* of its calls returns or raises (the client has a timeout)
SpecLive == Spec /\ WF_vars(Next)

\* repeated link checks of one verifier, while the resource stays or moves
InitLink ==
    /\ stats = EmptyStats
    /\ remote \in Remotes
    /\ url = <<>>
    /\ vid = NoneVal
    /\ fingerprint = None
    /\ org = NoneVal
    /\ pc = "idle"
    /\ op = None
    /\ org_arg = NoneVal
    /\ current_step = ""
    /\ doc = <<>>
    /\ upload_url = NoneVal
    /\ exc = <<>>
    /\ result = NoResult
    /\ trace = <<>>
    /\ lastCheck = NoneVal
    /\ prevCheck = NoneVal
    /\ opsLeft = MaxChecks
    /\ threads = <<>>
    /\ dicts = <<>>
    /\ user_sessions = <<>>
    /\ checked = {}

NextLink ==
    \/ \E u \in Urls, fp \in Fingerprints : NewVerifier(u, fp)
    \/ \E r \in Remotes : RemoteChange(r)
    \/ CheckLink

SpecLink == InitLink /\ [][NextLink]_vars

\* ------------------------------------------------ the recorder on its own
\* the names verify passes to stats.record
OrgNames == {o.name : o \in Orgs}

\* the module-level stats object before any call, no stats.json on disk
InitRecord ==
    /\ Init
    /\ remote = [status |-> 200, step |-> "success"]

\* one call of stats.record, run from its first line to the end of _save
\* before the next call starts
RecordCall(name, success) ==
    /\ stats.total < MaxRecords
    /\ stats' = Record(stats, name, success)
    /\ trace' = trace \o <<EvRecord(name, success)>>
    /\ UNCHANGED <<remote, url, vid, fingerprint, org, pc, op, org_arg, current_step,
                   doc, upload_url, exc, result, lastCheck, prevCheck, opsLeft,
                   threads, dicts, user_sessions, checked>>

NextRecord == \E name \in OrgNames, success \in BOOLEAN : RecordCall(name, success)

SpecRecord == InitRecord /\ [][NextRecord]_vars

\* --------------------------------------- the recorder under several threads
\* TeleBot runs the handlers on worker threads; they share the stats object,
\* and Stats.record takes no lock.  Each thread makes one call; a step is what
\* the interpreter does between two points where it may switch threads: the
\* read of an augmented assignment and its write are two steps.
Threads == 1..NumThreads

\* the variables of the verifier, which plays no part here
RecorderFrame ==
    UNCHANGED <<remote, url, vid, fingerprint, org, pc, op, org_arg, current_step,
                doc, upload_url, exc, result, lastCheck, prevCheck, opsLeft,
                user_sessions, checked>>

InitThreads ==
    /\ stats = EmptyStats
    /\ remote = [status |-> 200, step |-> "success"]
    /\ url = <<>>
    /\ vid = NoneVal
    /\ fingerprint = None
    /\ org = NoneVal
    /\ pc = "idle"
    /\ op = None
    /\ org_arg = NoneVal
    /\ current_step = ""
    /\ doc = <<>>
    /\ upload_url = NoneVal
    /\ exc = <<>>
    /\ result = NoResult
    /\ trace = <<>>
    /\ lastCheck = NoneVal
    /\ prevCheck = NoneVal
    /\ opsLeft = 0
    /\ threads = [t \in Threads |->
                    [pc |-> "start", org |-> "", success |-> FALSE, tmp |-> 0, obj |-> 0]]
    /\ dicts = <<>>
    /\ user_sessions = <<>>
    /\ checked = {}

\* thread t moves to label with the given locals
Step(t, label, tmp, obj) ==
    threads' = [threads EXCEPT ![t].pc = label, ![t].tmp = tmp, ![t].obj = obj]

\* f with x bound to v, whether or not x was bound before
Bind(f, x, v) == [y \in DOMAIN f \cup {x} |-> IF y = x THEN v ELSE f[y]]

\* line 58: the handler of thread t calls stats.record(name, success)
RecordStart(t, name, success) ==
    /\ threads[t].pc = "start"
    /\ threads' = [threads EXCEPT ![t].pc = "r_total", ![t].org = name,
                                  ![t].success = success]
    /\ UNCHANGED <<stats, dicts, trace>>
    /\ RecorderFrame

\* line 59, self.data["total"] += 1: the read
RecordReadTotal(t) ==
    /\ threads[t].pc = "r_total"
    /\ Step(t, "w_total", stats.total, 0)
    /\ UNCHANGED <<stats, dicts, trace>>
    /\ RecorderFrame

\* line 59: the write of the value read plus one
RecordWriteTotal(t) ==
    /\ threads[t].pc = "w_total"
    /\ stats' = [stats EXCEPT !.total = threads[t].tmp + 1]
    /\ Step(t, "r_key", 0, 0)
    /\ UNCHANGED <<dicts, trace>>
    /\ RecorderFrame

\* line 60, self.data["success" if success else "failed"] += 1: the read
RecordReadKey(t) ==
    /\ threads[t].pc = "r_key"
    /\ Step(t, "w_key", stats[Key(threads[t].success)], 0)
    /\ UNCHANGED <<stats, dicts, trace>>
    /\ RecorderFrame

\* line 60: the write
RecordWriteKey(t) ==
    /\ threads[t].pc = "w_key"
    /\ stats' = [stats EXCEPT ![Key(threads[t].success)] = threads[t].tmp + 1]
    /\ Step(t, "c_org", 0, 0)
    /\ UNCHANGED <<dicts, trace>>
    /\ RecorderFrame

\* line 61: if org not in self.data["orgs"]
RecordCheckOrg(t) ==
    /\ threads[t].pc = "c_org"
    /\ Step(t, IF threads[t].org \notin DOMAIN stats.orgs THEN "n_org" ELSE "r_org", 0, 0)
    /\ UNCHANGED <<stats, dicts, trace>>
    /\ RecorderFrame

\* line 62: a new dict of zeros is stored under the name, in place of any
\* dict another thread stored there since the test; the new object is named
\* after the thread that made it
RecordNewOrg(t) ==
    /\ threads[t].pc = "n_org"
    /\ stats' = [stats EXCEPT !.orgs = Bind(@, threads[t].org, [success |-> 0, failed |-> 0])]
    /\ dicts' = Bind(dicts, threads[t].org, t)
    /\ Step(t, "r_org", 0, 0)
    /\ UNCHANGED trace
    /\ RecorderFrame

\* line 63, self.data["orgs"][org][key] += 1: the dict under the name is
\* fetched and its counter read
RecordReadOrg(t) ==
    /\ threads[t].pc = "r_org"
    /\ Step(t, "w_org", stats.orgs[threads[t].org][Key(threads[t].success)],
            dicts[threads[t].org])
    /\ UNCHANGED <<stats, dicts, trace>>
    /\ RecorderFrame

\* line 63: the write goes to the dict that was fetched; it shows in the
\* tally only if data["orgs"] still holds that dict
RecordWriteOrg(t) ==
    /\ threads[t].pc = "w_org"
    /\ IF dicts[threads[t].org] = threads[t].obj
       THEN stats' = [stats EXCEPT !.orgs[threads[t].org][Key(threads[t].success)] =
                                        threads[t].tmp + 1]
       ELSE UNCHANGED stats
    /\ Step(t, "save", 0, 0)
    /\ UNCHANGED <<dicts, trace>>
    /\ RecorderFrame

\* line 64: _save writes the tally to stats.json and record returns
RecordSave(t) ==
    /\ threads[t].pc = "save"
    /\ Step(t, "done", 0, 0)
    /\ trace' = trace \o <<EvRecord(threads[t].org, threads[t].success)>>
    /\ UNCHANGED <<stats, dicts>>
    /\ RecorderFrame

NextThreads ==
    \E t \in Threads :
        \/ \E name \in OrgNames, success \in BOOLEAN : RecordStart(t, name, success)
        \/ RecordReadTotal(t)
        \/ RecordWriteTotal(t)
        \/ RecordReadKey(t)
        \/ RecordWriteKey(t)
        \/ RecordCheckOrg(t)
        \/ RecordNewOrg(t)
        \/ RecordReadOrg(t)
        \/ RecordWriteOrg(t)
        \/ RecordSave(t)

SpecThreads == InitThreads /\ [][NextThreads]_vars

\* ------------------------------------------------- the handlers of the bot
\* One chat talks to the bot; its updates are handled one after the other.
\* Texts are sequences of characters, so that the tests the handlers make on
\* them (substring, strip, length, the date pattern) are computed.
Chats == {"chat"}

\* Python's "sub in s"
Contains(s, sub) ==
    \E i \in 1..(Len(s) - Len(sub) + 1) : SubSeq(s, i, i + Len(sub) - 1) = sub

\* str.strip() for the blanks of the texts below
RECURSIVE Strip(_)
Strip(s) ==
    IF s = <<>> THEN s
    ELSE IF Head(s) = " " THEN Strip(Tail(s))
    ELSE IF s[Len(s)] = " " THEN Strip(SubSeq(s, 1, Len(s) - 1))
    ELSE s

IsDigit(c) == c \in {"0","1","2","3","4","5","6","7","8","9"}

\* line 433: re.match(r'^\d{4}-\d{2}-\d{2}$', dob) on a stripped text
DobMatches(s) ==
    /\ Len(s) = 10
    /\ \A i \in {1, 2, 3, 4, 6, 7, 9, 10} : IsDigit(s[i])
    /\ s[5] = "-"
    /\ s[8] = "-"

SheerIdHost == <<"s","h","e","e","r","i","d",".","c","o","m">>
TextUrl == SheerIdHost \o <<"?">> \o Marker \o <<"a">>
\* passes the test of handle_message, holds no identifier for _parse_id
TextUrlNoId == SheerIdHost \o <<"?">> \o Marker \o <<"g">>
TextEmail == <<" ","a","@","b">>
TextDob == <<"2","0","0","2","-","0","5","-","1","5">>
TextDobShort == <<"2","0","0","2","-","5","-","1","5">>
TextQuery == <<"M","I","T">>
TextShort == <<" ","a","b"," ">>

\* the texts the chat may send
Texts == {TextUrl, TextUrlNoId, TextEmail, TextDob, TextDobShort, TextQuery, TextShort}

\* call.data of a button press, split at "_"; the handler takes data that
\* starts with "uni_"
CallbackData ==
    {<<"uni", "0">>, <<"uni", "1">>, <<"uni", "2">>, <<"uni", "x">>,
     <<"uni", "search", "again">>}

\* int(s) of line 475: the index, or None for a ValueError
ParseInt(s) ==
    IF s = "0" THEN Some(0) ELSE IF s = "1" THEN Some(1)
    ELSE IF s = "2" THEN Some(2) ELSE NoneVal

\* what search_universities may return: a list of at most two universities,
\* empty also when the search failed
Unis == << [id |-> 1, name |-> "MIT"], [id |-> 2, name |-> "UCLA"] >>
SearchResults == {SubSeq(Unis, 1, n) : n \in 0..Len(Unis)}

\* dict.get(key): None when the key is absent
Get(d, k) == IF k \in DOMAIN d THEN Some(d[k]) ELSE NoneVal

EmptyDict == <<>>

\* user_sessions.get(user_id, {}): the stored dict, or a new one that is not
\* stored
Session(c) == IF c \in DOMAIN user_sessions THEN user_sessions[c] ELSE EmptyDict

\* the handler changed the dict it got from user_sessions.get
Mutate(c, s) ==
    user_sessions' = IF c \in DOMAIN user_sessions
                     THEN [user_sessions EXCEPT ![c] = s] ELSE user_sessions

\* user_sessions[user_id] = s
Assign(c, s) == user_sessions' = Bind(user_sessions, c, s)

\* what the bot model leaves alone: the verifier of Spec and the threads
BotFrame ==
    UNCHANGED <<remote, url, vid, fingerprint, org, pc, op, org_arg, current_step,
                doc, upload_url, exc, lastCheck, prevCheck, threads, dicts>>

\* events of a handler: the update it got, then what it did
EvUpdate(kind) == [ev |-> kind]
EvCheck(u, outcome) == [ev |-> "check", url |-> u, outcome |-> outcome]
EvSearch(q) == [ev |-> "search", query |-> q]
EvRun(u, user_data, o) == [ev |-> "run", url |-> u, user_data |-> user_data, org |-> o]
\* the except clause of handle_uni_callback was entered
EvError == [ev |-> "error"]
\* an exception left the handler
EvUncaught == [ev |-> "uncaught"]

InitBot ==
    /\ stats = EmptyStats
    /\ remote = [status |-> 200, step |-> "success"]
    /\ url = <<>>
    /\ vid = NoneVal
    /\ fingerprint = None
    /\ org = NoneVal
    /\ pc = "idle"
    /\ op = None
    /\ org_arg = NoneVal
    /\ current_step = ""
    /\ doc = <<>>
    /\ upload_url = NoneVal
    /\ exc = <<>>
    /\ result = NoResult
    /\ trace = <<>>
    /\ lastCheck = NoneVal
    /\ prevCheck = NoneVal
    /\ opsLeft = MaxRuns
    /\ threads = <<>>
    /\ dicts = <<>>
    /\ user_sessions = <<>>
    /\ checked = {}

\* start_command, lines 321-342; a send_message that raises changes nothing
StartCommand(c) ==
    /\ Assign(c, EmptyDict)
    /\ trace' = <<EvUpdate("command")>>
    /\ UNCHANGED <<stats, result, opsLeft, checked>>
    /\ BotFrame

\* verify_command, lines 375-378
VerifyCommand(c) ==
    /\ Assign(c, [step |-> "url"])
    /\ trace' = <<EvUpdate("command")>>
    /\ UNCHANGED <<stats, result, opsLeft, checked>>
    /\ BotFrame

\* what check_link may return for a handler: its result, or NoResult when it
\* raised (a probe that failed in transport, a body that is no JSON object)
CheckResults(u) ==
    IF ~TruthyStr(ParseId(u))
    THEN {[valid |-> FALSE, error |-> <<"Invalid URL">>]}
    ELSE {Classify(st) : st \in Steps}
         \cup {[valid |-> FALSE, error |-> <<"HTTP ">> \o Str(st)] : st \in GetStatuses \ {200}}
         \cup {NoResult}

\* an outcome of handle_message: the dict it leaves (assigned to
\* user_sessions, or the one it got, changed), its events, the references
\* check_link found valid
Outcome(assign, s, events, ok) == [assign |-> assign, s |-> s, events |-> events, ok |-> ok]

\* lines 390-409: the reference.  A Telegram call that raises leaves the
\* handler at once; tg says whether the edit_message_text after the check does
UrlStep(s, text) ==
    LET u == Strip(text) IN
    IF ~Contains(u, SheerIdHost) \/ ~Contains(u, Marker)
    THEN {Outcome(FALSE, s, <<>>, {})}
    ELSE {Outcome(FALSE, s, <<EvUncaught>>, {})}
         \cup UNION {
            IF r = NoResult
            THEN {Outcome(FALSE, s, <<EvCheck(u, "raised"), EvUncaught>>, {})}
            ELSE IF ~r.valid
            THEN {Outcome(TRUE, EmptyDict, <<EvCheck(u, "invalid")>>, {}),
                  Outcome(FALSE, s, <<EvCheck(u, "invalid"), EvUncaught>>, {})}
            ELSE {Outcome(FALSE, Bind(Bind(s, "url", u), "step", "first_name"),
                          <<EvCheck(u, "valid")>>, {u}),
                  Outcome(FALSE, s, <<EvCheck(u, "valid"), EvUncaught>>, {u})}
            : r \in CheckResults(u)}

\* lines 411-438: first name, last name, email, birth date
FieldStep(s, text) ==
    LET t == Strip(text)
        step == s["step"]
    IN  IF step = "first_name"
        THEN {Outcome(FALSE, Bind(Bind(s, "firstName", t), "step", "last_name"), <<>>, {})}
        ELSE IF step = "last_name"
        THEN {Outcome(FALSE, Bind(Bind(s, "lastName", t), "step", "email"), <<>>, {})}
        ELSE IF step = "email"
        THEN IF ~Contains(t, <<"@">>) THEN {Outcome(FALSE, s, <<>>, {})}
             ELSE {Outcome(FALSE, Bind(Bind(s, "email", t), "step", "dob"), <<>>, {})}
        ELSE IF ~DobMatches(t) THEN {Outcome(FALSE, s, <<>>, {})}
             ELSE {Outcome(FALSE, Bind(Bind(s, "birthDate", t), "step", "uni_search"), <<>>, {})}

\* lines 440-462: the search; the step moves on only after the keyboard was
\* sent, the results are stored before
SearchStep(s, text) ==
    LET q == Strip(text) IN
    IF Len(q) < 3 THEN {Outcome(FALSE, s, <<>>, {})}
    ELSE {Outcome(FALSE, s, <<EvUncaught>>, {})}
         \cup UNION {
            IF results = <<>>
            THEN {Outcome(FALSE, s, <<EvSearch(q)>>, {})}
            ELSE {Outcome(FALSE, Bind(Bind(s, "uni_results", results), "step", "uni_select"),
                          <<EvSearch(q)>>, {}),
                  Outcome(FALSE, Bind(s, "uni_results", results),
                          <<EvSearch(q), EvUncaught>>, {})}
            : results \in SearchResults}

\* handle_message, lines 380-462
MessageOutcomes(s, text) ==
    LET step == Get(s, "step") IN
    IF step = NoneVal THEN {Outcome(FALSE, s, <<>>, {})}
    ELSE IF step[1] = "url" THEN UrlStep(s, text)
    ELSE IF step[1] \in {"first_name", "last_name", "email", "dob"} THEN FieldStep(s, text)
    ELSE IF step[1] = "uni_search" THEN SearchStep(s, text)
    ELSE {Outcome(FALSE, s, <<>>, {})}

HandleMessage(c, text) ==
    /\ \E o \in MessageOutcomes(Session(c), text) :
          /\ IF o.assign THEN Assign(c, o.s) ELSE Mutate(c, o.s)
          /\ trace' = <<EvUpdate("message")>> \o o.events
          /\ checked' = checked \cup o.ok
    /\ UNCHANGED <<stats, result, opsLeft>>
    /\ BotFrame

\* lines 478-482: the org dict built from the selected university
OrgOf(uni) == [id |-> uni.id, idExtended |-> Str(uni.id), name |-> uni.name]

\* the keys lines 487-494 read from the session
RunKeys == {"firstName", "lastName", "email", "birthDate", "url"}

\* lines 475-476: the index parses and the session has a result list that
\* long; otherwise ValueError, KeyError or IndexError
Selects(s, data) ==
    /\ ParseInt(data[2]) # NoneVal
    /\ "uni_results" \in DOMAIN s
    /\ ParseInt(data[2])[1] < Len(s["uni_results"])

\* what verify hands back to the handler, and the outcome it recorded, if any;
\* verify catches its own exceptions
VerifyOutcomes ==
    {[res |-> InstantSuccess, rec |-> Some(TRUE)],
     [res |-> UploadSuccess(<<137, 80>>), rec |-> Some(TRUE)],
     [res |-> SubmittedSuccess("pending"), rec |-> NoneVal],
     [res |-> Failure(<<"Upload failed">>), rec |-> Some(FALSE)]}

\* the except clause, lines 519-521: the notice is sent before the session is
\* reset, so a send_message that raises leaves the session as it is
CallbackExcept(c, events) ==
    \/ /\ Assign(c, EmptyDict)
       /\ trace' = <<EvUpdate("callback")>> \o events \o <<EvError>>
    \/ /\ UNCHANGED user_sessions
       /\ trace' = <<EvUpdate("callback")>> \o events \o <<EvError, EvUncaught>>

\* lines 487-517: verify is called; then the result is shown and the session
\* reset, unless showing it raises
CallbackRun(c, s, o) ==
    LET user_data == [firstName |-> s["firstName"], lastName |-> s["lastName"],
                      email |-> s["email"], birthDate |-> s["birthDate"]]
        run == EvRun(s["url"], user_data, o)
    IN  \E v \in VerifyOutcomes :
           /\ opsLeft' = opsLeft - 1
           /\ result' = v.res
           /\ stats' = IF v.rec = NoneVal THEN stats ELSE Record(stats, o.name, v.rec[1])
           /\ \/ /\ Assign(c, EmptyDict)
                 /\ trace' = <<EvUpdate("callback"), run>>
              \/ CallbackExcept(c, <<run>>)

\* handle_uni_callback, lines 464-521
HandleUniCallback(c, data) ==
    LET s == Session(c) IN
    /\ IF data = <<"uni", "search", "again">>
       THEN /\ Mutate(c, Bind(s, "step", "uni_search"))
            /\ trace' = <<EvUpdate("callback")>>
            /\ UNCHANGED <<stats, result, opsLeft>>
       ELSE IF ~Selects(s, data) \/ ~(RunKeys \subseteq DOMAIN s)
       THEN /\ CallbackExcept(c, <<>>)
            /\ UNCHANGED <<stats, result, opsLeft>>
       ELSE /\ opsLeft > 0
            /\ \/ /\ CallbackExcept(c, <<>>)
                  /\ UNCHANGED <<stats, result, opsLeft>>
               \/ CallbackRun(c, s, OrgOf(s["uni_results"][ParseInt(data[2])[1] + 1]))
    /\ UNCHANGED checked
    /\ BotFrame

NextBot ==
    \E c \in Chats :
        \/ StartCommand(c)
        \/ VerifyCommand(c)
        \/ \E text \in Texts : HandleMessage(c, text)
        \/ \E data \in CallbackData : HandleUniCallback(c, data)

SpecBot == InitBot /\ [][NextBot]_vars

\* ======================================================================
\* Properties
\* ======================================================================
\* the events of one kind in a trace, in order
Events(t, kind) == SelectSeq(t, LAMBDA e : e.ev = kind)
Requests(t) == Events(t, "req")
Puts(t) == Events(t, "put")
Gens(t) == Events(t, "gen")
RecordCalls(t) == Events(t, "record")
\* the requests that change the resource
Mutating(t) == SelectSeq(Requests(t), LAMBDA e : e.method # "GET")

VerifyReturned == op = "verify" /\ pc = "done"
CheckLinkReturned == op = "check_link" /\ pc = "done"

\* the reference holds "verificationId=" (any case) followed by a hex digit
HasIdentifier(u) ==
    \E i \in 1..Len(u) :
        /\ i + Len(Marker) <= Len(u)
        /\ \A k \in 1..Len(Marker) : Lower(u[i + k - 1]) = Lower(Marker[k])
        /\ IsHex(u[i + Len(Marker)])

\* ---------------------------------------------------------------- C1
\* C1: when verify returns on a well-formed reference, stats.record has been
\* called exactly once in that call, with the success field of the result.
C1_ExactlyOneRecord ==
    (VerifyReturned /\ HasIdentifier(url)) =>
        /\ Len(RecordCalls(trace)) = 1
        /\ RecordCalls(trace)[1].success = result.success

\* ---------------------------------------------------------------- C2
\* C2: on a reference from which no identifier can be extracted, verify and
\* check_link return their validation failure, having sent no request, made
\* no upload and called stats.record not at all.
C2_MalformedReferenceFailsFast ==
    (op # None /\ ~HasIdentifier(url)) =>
        /\ pc = "done"
        /\ op = "verify" => result = [success |-> FALSE, error |-> <<"Invalid verification URL">>]
        /\ op = "check_link" => result = [valid |-> FALSE, error |-> <<"Invalid URL">>]
        /\ trace = <<>>
        /\ stats = EmptyStats

\* verify returned on a reference that has the marker but no hex digit after it
C2_Witness ==
    /\ VerifyReturned
    /\ MarkerAt(url, 1)
    /\ Len(url) > Len(Marker)
    /\ ~HasIdentifier(url)
    /\ result.success = FALSE

\* ------------------------------------------------- answers seen in a trace
\* the step name a request addresses; "" for the resource itself
StepOf(e) == IF Len(e.ep) = 4 THEN e.ep[4] ELSE ""

\* the request was answered with status 200 and a JSON object reporting step s
Reports(e, s) ==
    e.raised = <<>> /\ e.status = 200 /\ e.data.kind = "dict" /\ e.data.currentStep = s

\* the first probe of the running call reported step s
ProbeReported(s) ==
    /\ Len(Requests(trace)) >= 1
    /\ Requests(trace)[1].method = "GET"
    /\ Reports(Requests(trace)[1], s)

\* the personal-info submission of the running call reported step s
SubmitReported(s) ==
    /\ Len(Requests(trace)) >= 2
    /\ Requests(trace)[2].method = "POST"
    /\ StepOf(Requests(trace)[2]) = "collectStudentPersonalInfo"
    /\ Reports(Requests(trace)[2], s)

\* what a trace did, without the pacing delays and the recorder call
Tag(e) == IF e.ev = "req" THEN <<e.method, StepOf(e)>> ELSE <<e.ev>>
Calls(t) ==
    LET kept == SelectSeq(t, LAMBDA e : e.ev \in {"req", "gen", "put"})
    IN  [i \in 1..Len(kept) |-> Tag(kept[i])]

\* ---------------------------------------------------------------- C3
UploadPath ==
    << <<"GET", "">>, <<"POST", "collectStudentPersonalInfo">>, <<"gen">>,
       <<"POST", "docUpload">>, <<"put">>, <<"POST", "completeDocUpload">> >>

\* the calls of the upload path, in order and all of them, the bytes generated
\* are the bytes put to the URL of the slot answer and the bytes returned
C3_FullUpload ==
    /\ Calls(trace) = UploadPath
    /\ Puts(trace)[1].data = Gens(trace)[1].doc
    /\ Some(Puts(trace)[1].url) = Requests(trace)[3].data.documents[1]
    /\ 200 <= Puts(trace)[1].status /\ Puts(trace)[1].status < 300
    /\ result.success = TRUE
    /\ result.instant = FALSE
    /\ "document" \in DOMAIN result
    /\ result.document = Puts(trace)[1].data

\* no pacing delay, request or document generation raised, every slot answer is
\* a JSON object with a document that has an uploadUrl, every PUT answered 2xx
C3_NothingFails ==
    \A i \in 1..Len(trace) :
        LET e == trace[i] IN
        /\ e.ev = "delay" => e.ok
        /\ e.ev = "req" => e.raised = <<>>
        /\ e.ev = "gen" => e.doc # <<>>
        /\ e.ev = "put" => (200 <= e.status /\ e.status < 300)
        /\ (e.ev = "req" /\ StepOf(e) = "docUpload") =>
               /\ e.data.kind = "dict"
               /\ e.data.documents # <<>>
               /\ e.data.documents[1] # NoneVal

\* C3 as stated: probe reports collectStudentPersonalInfo and the submission
\* reports docUpload, so verify runs the whole upload path and returns the
\* uploaded bytes.
C3_Original ==
    (VerifyReturned /\ ProbeReported("collectStudentPersonalInfo")
        /\ SubmitReported("docUpload")) => C3_FullUpload

\* C3 amended: the same, provided no later call raises, the slot answer carries
\* a document with an uploadUrl and the PUT is answered 2xx.
C3_UploadPathInOrder ==
    (VerifyReturned /\ ProbeReported("collectStudentPersonalInfo")
        /\ SubmitReported("docUpload") /\ C3_NothingFails) => C3_FullUpload

C3_Witness ==
    /\ VerifyReturned
    /\ ProbeReported("collectStudentPersonalInfo")
    /\ SubmitReported("docUpload")
    /\ C3_NothingFails
    /\ Len(Puts(trace)) = 1
    /\ "document" \in DOMAIN result

\* ---------------------------------------------------------------- C4
Deletes(t) == SelectSeq(Requests(t), LAMBDA e : e.method = "DELETE")
Gets(t) == SelectSeq(Requests(t), LAMBDA e : e.method = "GET")

\* the step is sso when verify reaches its dispatch
SsoAtDispatch ==
    \/ ProbeReported("sso")
    \/ ProbeReported("collectStudentPersonalInfo") /\ SubmitReported("sso")

\* position in Requests(trace) of the DELETE on the sso step
DeleteAt == CHOOSE i \in 1..Len(Requests(trace)) : Requests(trace)[i].method = "DELETE"

\* one DELETE on the sso step, then one re-probe GET
C4_OneDeleteOneReprobe ==
    /\ Len(Deletes(trace)) = 1
    /\ StepOf(Deletes(trace)[1]) = "sso"
    /\ Len(Requests(trace)) > DeleteAt
    /\ Requests(trace)[DeleteAt + 1].method = "GET"
    /\ Len(SelectSeq(SubSeq(Requests(trace), DeleteAt + 1, Len(Requests(trace))),
                     LAMBDA e : e.method = "GET")) = 1

\* the re-probe reported sso again: verify returned its final outcome
C4_StillSsoReturns ==
    (Len(Deletes(trace)) = 1 /\ Len(Requests(trace)) > DeleteAt
        /\ Reports(Requests(trace)[DeleteAt + 1], "sso")) =>
            result = SubmittedSuccess("sso")

\* the DELETE raised, or the pacing delay before the DELETE or before the
\* re-probe raised
C4_SsoCallRaised ==
    \/ Len(Deletes(trace)) = 1 /\ Deletes(trace)[1].raised # <<>>
    \/ /\ \E i \in 1..Len(trace) : trace[i].ev = "delay" /\ ~trace[i].ok
       /\ Len(Gets(trace)) = 1

\* C4 as stated: with step sso at the dispatch, verify issues exactly one
\* DELETE followed by exactly one re-probe, and returns even if the re-probe
\* reports sso again.
C4_Original ==
    (VerifyReturned /\ SsoAtDispatch) => (C4_OneDeleteOneReprobe /\ C4_StillSsoReturns)

\* C4 amended: verify never issues a second DELETE and always returns; with step
\* sso at the dispatch it issues exactly one DELETE followed by exactly one
\* re-probe, unless the DELETE raises or the pacing delay before the DELETE or
\* before the re-probe raises; it returns its final outcome if the re-probe
\* reports sso again.
C4_SsoBranchOnce ==
    /\ [](op = "verify" => Len(Deletes(trace)) <= 1 /\ Len(Gets(trace)) <= 2)
    /\ []((VerifyReturned /\ SsoAtDispatch) =>
            /\ C4_OneDeleteOneReprobe \/ C4_SsoCallRaised
            /\ C4_StillSsoReturns)
    /\ (op = "verify" ~> pc = "done")

C4_Witness ==
    /\ VerifyReturned
    /\ ProbeReported("sso")
    /\ Len(Deletes(trace)) = 1
    /\ Len(Requests(trace)) = 3
    /\ Reports(Requests(trace)[3], "sso")

\* ---------------------------------------------------------------- C5
\* the text of the exception the trace shows as raised last, if any
RaisedIn(t) ==
    IF t = <<>> THEN <<>>
    ELSE LET e == t[Len(t)]
         IN  IF e.ev = "delay" /\ ~e.ok THEN <<"sleep interrupted">>
             ELSE IF e.ev = "req" THEN e.raised
             ELSE IF e.ev = "gen" /\ e.doc = <<>> THEN <<"cannot render transcript">>
             ELSE <<>>

\* C5: an exception raised in verify after the reference check (pacing delay,
\* transport, document generation, a body that is no JSON object) never leaves
\* verify: verify returns a failure whose error is the text of the exception.
C5_ExceptionsBecomeFailures ==
    /\ op = "verify" => pc # "raised"
    /\ (op = "verify" /\ pc \notin {"done", "raised"} /\ RaisedIn(trace) # <<>>) =>
           (pc = "v_except" /\ exc = RaisedIn(trace))
    /\ (op = "verify" /\ exc # <<>>) =>
           /\ pc \in {"v_except", "done"}
           /\ pc = "done" => result = [success |-> FALSE, error |-> exc]

C5_Witness ==
    /\ VerifyReturned
    /\ Len(Requests(trace)) = 2
    /\ Requests(trace)[2].raised = <<"Request failed: ", "timeout">>
    /\ result = [success |-> FALSE, error |-> <<"Request failed: ", "timeout">>]

\* ---------------------------------------------------------------- C6
NonSuccessStatus(e) == e.raised = <<>> /\ ~(200 <= e.status /\ e.status < 300)

\* C6: when a verification-service call of verify is answered with a status
\* outside 200-299, verify returns a failure and records one failure; for the
\* personal-info submission the error holds the status and no call follows.
C6_Non2xxFails ==
    (VerifyReturned /\ \E i \in 1..Len(Requests(trace)) : NonSuccessStatus(Requests(trace)[i])) =>
        /\ result.success = FALSE
        /\ Len(RecordCalls(trace)) = 1
        /\ RecordCalls(trace)[1].success = FALSE
        /\ (Len(Requests(trace)) >= 2
            /\ StepOf(Requests(trace)[2]) = "collectStudentPersonalInfo"
            /\ NonSuccessStatus(Requests(trace)[2])) =>
               /\ result.error = <<"Submit failed: ">> \o Str(Requests(trace)[2].status)
               /\ Len(Requests(trace)) = 2
               /\ Puts(trace) = <<>>

\* ---------------------------------------------------------------- C7
\* C7: when the service reports step error to verify, as the probed step or in
\* the answer to the personal-info submission, verify returns a failure that
\* holds the error identifiers of that answer, and sends no mutating request
\* after it.
C7_ErrorStepFails ==
    /\ (VerifyReturned /\ ProbeReported("error")) =>
           /\ result = [success |-> FALSE,
                        error |-> <<"Error: ">> \o Requests(trace)[1].data.errorIds]
           /\ Mutating(trace) = <<>>
    /\ (VerifyReturned /\ SubmitReported("error")) =>
           /\ result = [success |-> FALSE,
                        error |-> <<"Error: ">> \o Requests(trace)[2].data.errorIds]
           /\ Len(Requests(trace)) = 2
           /\ Puts(trace) = <<>>

\* ---------------------------------------------------------------- C8
\* the probe of check_link was answered 200 with a JSON object
CheckLinkProbed ==
    /\ CheckLinkReturned
    /\ Len(Requests(trace)) = 1
    /\ Requests(trace)[1].raised = <<>>
    /\ Requests(trace)[1].status = 200
    /\ Requests(trace)[1].data.kind = "dict"

\* C8: check_link returns valid with the step for collectStudentPersonalInfo,
\* docUpload and sso, "Already verified" for success, "Already pending review"
\* for pending and an invalid-step error for any other step.
C8_Classification ==
    CheckLinkProbed =>
        LET s == Requests(trace)[1].data.currentStep IN
        /\ s \in {"collectStudentPersonalInfo", "docUpload", "sso"} =>
               result = [valid |-> TRUE, step |-> s]
        /\ s = "success" => result = [valid |-> FALSE, error |-> <<"Already verified">>]
        /\ s = "pending" => result = [valid |-> FALSE, error |-> <<"Already pending review">>]
        /\ s \notin {"collectStudentPersonalInfo", "docUpload", "sso", "success", "pending"} =>
               result = [valid |-> FALSE, error |-> <<"Invalid step: ", s>>]

C8_Witness ==
    /\ CheckLinkProbed
    /\ Requests(trace)[1].data.currentStep = "pending"
    /\ result = [valid |-> FALSE, error |-> <<"Already pending review">>]

\* ---------------------------------------------------------------- C9
\* C9: check_link sends at most one request, a GET, makes no upload, never
\* calls stats.record, and two check_link calls that return on the same state
\* of the resource return the same value.
C9_CheckLinkReadOnly ==
    /\ op = "check_link" =>
           /\ Len(Requests(trace)) <= 1
           /\ Mutating(trace) = <<>>
           /\ Puts(trace) = <<>>
           /\ RecordCalls(trace) = <<>>
           /\ stats = EmptyStats
    /\ (lastCheck # NoneVal /\ prevCheck # NoneVal
        /\ lastCheck[1].remote = prevCheck[1].remote) =>
           lastCheck[1].result = prevCheck[1].result

\* two link checks returned a classified step on the same state of the resource
C9_Witness ==
    /\ CheckLinkProbed
    /\ prevCheck # NoneVal
    /\ lastCheck[1].remote = prevCheck[1].remote
    /\ lastCheck[1].result.valid = TRUE
    /\ opsLeft = MaxChecks - 2

\* ---------------------------------------------------------------- C10
\* C10: when the first probe of verify reports step success, verify sends no
\* mutating request, makes no upload, asks for no document, and returns
\* success with instant true and no document.
C10_ProbedSuccessIsInstant ==
    (op = "verify" /\ ProbeReported("success")) =>
        /\ pc \in {"v_dispatch", "done"}
        /\ Mutating(trace) = <<>>
        /\ Puts(trace) = <<>>
        /\ Gens(trace) = <<>>
        /\ pc = "done" =>
              /\ result.success = TRUE
              /\ result.instant = TRUE
              /\ "document" \notin DOMAIN result

C10_Witness ==
    /\ VerifyReturned
    /\ ProbeReported("success")
    /\ result.success = TRUE
    /\ Len(trace) = 3

\* ---------------------------------------------------------------- C11
\* the steps the dispatch of verify has a branch for
RecognisedSteps ==
    {"collectStudentPersonalInfo", "docUpload", "sso", "success", "pending", "error"}

\* the request whose answer is the step verify ends its dispatch on: the
\* re-probe after the DELETE if there is one, else the personal-info
\* submission if there is one, else the first probe; 0 before any request
DecidingRequest ==
    LET R == Requests(trace) IN
    IF \E i \in 2..Len(R) : R[i].method = "GET"
    THEN CHOOSE i \in 2..Len(R) : R[i].method = "GET"
    ELSE IF Len(R) >= 2 /\ R[2].method = "POST"
                        /\ StepOf(R[2]) = "collectStudentPersonalInfo"
    THEN 2
    ELSE IF Len(R) >= 1 THEN 1 ELSE 0

\* the deciding request was answered with a JSON object reporting step s;
\* the status of the re-probe is not looked at, the other two are 200
DecidedOn(s) ==
    LET R == Requests(trace)
        k == DecidingRequest
    IN  /\ k > 0
        /\ R[k].raised = <<>>
        /\ R[k].data.kind = "dict"
        /\ R[k].data.currentStep = s
        /\ (k <= 2 => R[k].status = 200)

\* C11: when the step verify ends its dispatch on is none of the recognised
\* steps, verify makes no further request, upload or document, and returns
\* success with instant false, no document and a message that names the step.
C11_UnknownStepSubmitted ==
    \A s \in Steps \ RecognisedSteps :
        (op = "verify" /\ DecidedOn(s)) =>
            /\ Len(Requests(trace)) = DecidingRequest
            /\ Puts(trace) = <<>>
            /\ Gens(trace) = <<>>
            /\ pc \in {"v_dispatch", "v_doccheck", "done"}
            /\ pc = "done" =>
                  result = [success |-> TRUE, instant |-> FALSE,
                            message |-> <<"Submitted (step: ", s, ")">>]

\* the personal-info submission reported a step verify has no branch for
C11_Witness ==
    /\ VerifyReturned
    /\ ProbeReported("collectStudentPersonalInfo")
    /\ SubmitReported("emailLoop")
    /\ DecidedOn("emailLoop")
    /\ result.success = TRUE
    /\ "document" \notin DOMAIN result

\* ---------------------------------------------------------------- C12
\* the requests of a trace whose body has a deviceFingerprintHash
CarryFingerprint(t) ==
    SelectSeq(Requests(t),
              LAMBDA e : e.body # NoneVal /\ "deviceFingerprintHash" \in DOMAIN e.body[1])

\* C12: the fingerprint of a verifier is one of the generated values from its
\* construction on, no step of check_link, verify, _request or _upload_s3
\* changes it, and every request that carries a fingerprint carries that value.
C12_FingerprintFixed ==
    /\ [](pc # "idle" =>
             /\ fingerprint \in Fingerprints
             /\ \A i \in 1..Len(CarryFingerprint(trace)) :
                    CarryFingerprint(trace)[i].body[1].deviceFingerprintHash = fingerprint)
    /\ [][pc # "idle" => fingerprint' = fingerprint]_vars

\* verify ran past a personal-info submission that carried the fingerprint
C12_Witness ==
    /\ VerifyReturned
    /\ Len(CarryFingerprint(trace)) = 1
    /\ Len(Requests(trace)) > 2
    /\ fingerprint = "fp2"

\* ---------------------------------------------------------------- C13
\* the requests of a trace to one step endpoint
RequestsTo(t, stepName) == SelectSeq(Requests(t), LAMBDA e : StepOf(e) = stepName)

\* a PUT was answered with a status in 200-299; status 0 stands for a PUT
\* that raised
PutAccepted(e) == 200 <= e.status /\ e.status < 300

\* the upload-slot request was answered with a JSON object without documents
SlotWithoutDocuments ==
    \E i \in 1..Len(RequestsTo(trace, "docUpload")) :
        LET e == RequestsTo(trace, "docUpload")[i] IN
        e.raised = <<>> /\ e.data.kind = "dict" /\ e.data.documents = <<>>

\* C13: a completeDocUpload request comes only after a PUT answered 200-299;
\* a slot answer without documents ends verify with "No upload URL", no PUT
\* and no completion request; a PUT that raised or was answered outside
\* 200-299 ends verify with "Upload failed" and no completion request.
C13_CompletionOnlyAfterAcceptedPut ==
    op = "verify" =>
        /\ \A i \in 1..Len(trace) :
              (trace[i].ev = "req" /\ StepOf(trace[i]) = "completeDocUpload") =>
                  \E j \in 1..(i - 1) : trace[j].ev = "put" /\ PutAccepted(trace[j])
        /\ SlotWithoutDocuments =>
              /\ pc = "done"
              /\ result = [success |-> FALSE, error |-> <<"No upload URL">>]
              /\ Puts(trace) = <<>>
              /\ RequestsTo(trace, "completeDocUpload") = <<>>
        /\ (\E i \in 1..Len(Puts(trace)) : ~PutAccepted(Puts(trace)[i])) =>
              /\ pc = "done"
              /\ result = [success |-> FALSE, error |-> <<"Upload failed">>]
              /\ RequestsTo(trace, "completeDocUpload") = <<>>

\* verify returned after a PUT answered 300, one past the accepted range
C13_Witness ==
    /\ VerifyReturned
    /\ Len(Puts(trace)) = 1
    /\ Puts(trace)[1].status = 300
    /\ result.success = FALSE

\* ---------------------------------------------------------------- C14
\* the outbound calls of verify in the order the code has them
CallOrder ==
    << <<"GET", "">>, <<"POST", "collectStudentPersonalInfo">>, <<"DELETE", "sso">>,
       <<"GET", "">>, <<"POST", "docUpload">>, <<"put">>, <<"POST", "completeDocUpload">> >>

\* the requests and PUTs of a trace, tagged, without the document generation
Outbound(t) == SelectSeq(Calls(t), LAMBDA c : c # <<"gen">>)

\* s is t with some elements left out
RECURSIVE IsSubsequence(_, _)
IsSubsequence(s, t) ==
    IF s = <<>> THEN TRUE
    ELSE IF t = <<>> THEN FALSE
    ELSE IF Head(s) = Head(t) THEN IsSubsequence(Tail(s), Tail(t))
    ELSE IsSubsequence(s, Tail(t))

\* C14: the outbound calls of one verify are the calls of CallOrder with some
\* left out: each at most once, the GET at most twice, none repeated after a
\* failure, and every PUT of the call goes to a URL of its own.
C14_CallsOnceInOrder ==
    op = "verify" =>
        /\ IsSubsequence(Outbound(trace), CallOrder)
        /\ Len(Gets(trace)) <= 2
        /\ Len(Puts(trace)) <= 1
        /\ \A i, j \in 1..Len(Puts(trace)) : Puts(trace)[i].url = Puts(trace)[j].url => i = j

\* verify made all seven calls
C14_Witness ==
    /\ VerifyReturned
    /\ Outbound(trace) = CallOrder
    /\ result.success = TRUE

\* ---------------------------------------------------------------- C15
\* C15: a call of stats.record is the last thing verify does before it
\* returns: no request, PUT, document generation or pacing delay follows it
\* in the trace, and verify has returned.
C15_RecordIsLast ==
    op = "verify" =>
        \A i \in 1..Len(trace) :
            trace[i].ev = "record" => (i = Len(trace) /\ pc = "done")

\* verify recorded a success after the completion request
C15_Witness ==
    /\ VerifyReturned
    /\ Len(RecordCalls(trace)) = 1
    /\ RecordCalls(trace)[1].success = TRUE
    /\ Len(RequestsTo(trace, "completeDocUpload")) = 1
    /\ trace[Len(trace) - 1].ev = "req"

\* ---------------------------------------------------------------- C16
\* C16: a personal-info submission is sent only when the first probe reported
\* collectStudentPersonalInfo; when the probe reported another step, no
\* submission is sent and the dispatch runs on the probed step: success
\* returns at once, sso sends the DELETE next, docUpload sends the slot
\* request next, any other step ends verify with no further request.
C16_SubmitOnlyOnCollect ==
    op = "verify" =>
        /\ RequestsTo(trace, "collectStudentPersonalInfo") # <<>> =>
               ProbeReported("collectStudentPersonalInfo")
        /\ \A s \in Steps \ {"collectStudentPersonalInfo"} :
              ProbeReported(s) =>
                 LET R == Requests(trace) IN
                 /\ RequestsTo(trace, "collectStudentPersonalInfo") = <<>>
                 /\ pc # "v_submit"
                 /\ pc = "v_dispatch" => current_step = s
                 /\ (s = "sso" /\ Len(R) >= 2) => Tag(R[2]) = <<"DELETE", "sso">>
                 /\ (s = "docUpload" /\ Len(R) >= 2) => Tag(R[2]) = <<"POST", "docUpload">>
                 /\ s \notin {"sso", "docUpload"} => Len(R) = 1
                 /\ (s = "success" /\ pc = "done") => result.instant = TRUE
                 /\ (s \notin {"sso", "docUpload", "success"} /\ pc = "done") =>
                        /\ result.success = TRUE
                        /\ result.message = <<"Submitted (step: ", s, ")">>

\* the probe reported docUpload and verify went to the slot request with no
\* submission before it
C16_Witness ==
    /\ VerifyReturned
    /\ ProbeReported("docUpload")
    /\ Len(Requests(trace)) >= 2
    /\ Tag(Requests(trace)[2]) = <<"POST", "docUpload">>
    /\ Len(Puts(trace)) = 1

\* ---------------------------------------------------------------- C17
\* C17: in verify and in check_link every request to the verification service
\* comes directly after one pacing delay that ran to its end, with no second
\* delay before that one; the PUT to the pre-signed URL comes directly after
\* an event that is no pacing delay.
C17_PacedRequestsUnpacedPut ==
    \A i \in 1..Len(trace) :
        /\ trace[i].ev = "req" =>
              /\ i >= 2
              /\ trace[i - 1] = [ev |-> "delay", ok |-> TRUE]
              /\ i >= 3 => trace[i - 2].ev # "delay"
        /\ trace[i].ev = "put" =>
              /\ i >= 2
              /\ trace[i - 1].ev # "delay"

\* verify made its seven calls, six of them paced
C17_Witness ==
    /\ VerifyReturned
    /\ Len(Requests(trace)) = 6
    /\ Len(Events(trace, "delay")) = 6
    /\ Len(Puts(trace)) = 1

\* ---------------------------------------------------------------- C19
\* C19: a check_link that sent its probe never ends in an exception: when the
\* probe fails in transport, check_link returns a result with valid false and
\* an error.
C19_CheckLinkNeverRaises ==
    (op = "check_link" /\ Len(Requests(trace)) = 1) =>
        /\ pc # "raised"
        /\ Requests(trace)[1].raised # <<>> =>
               /\ pc = "done"
               /\ result.valid = FALSE
               /\ "error" \in DOMAIN result

\* ---------------------------------------------------------------- C20
\* the sum of one counter over the organizations of a tally
RECURSIVE SumOrgs(_, _)
SumOrgs(orgs, key) ==
    IF DOMAIN orgs = {} THEN 0
    ELSE LET n == CHOOSE n \in DOMAIN orgs : TRUE
         IN  orgs[n][key] + SumOrgs([m \in DOMAIN orgs \ {n} |-> orgs[m]], key)

\* the counters of organization n in a tally, zero when it has none
OrgCount(data, n, key) == IF n \in DOMAIN data.orgs THEN data.orgs[n][key] ELSE 0

\* the other counter
OtherKey(key) == IF key = "success" THEN "failed" ELSE "success"

\* C20: after any number of stats.record calls made one after the other on
\* the empty tally, total = success + failed, success and failed are the sums
\* of the per-organization counters, and total is the number of calls; each
\* call adds one to total, one to the global and to the named organization's
\* counter of its outcome, and leaves every other counter as it was.
C20_TallyConsistent ==
    /\ [](/\ stats.total = stats.success + stats.failed
          /\ stats.success = SumOrgs(stats.orgs, "success")
          /\ stats.failed = SumOrgs(stats.orgs, "failed")
          /\ stats.total = Len(RecordCalls(trace)))
    /\ [][Len(trace') = Len(trace) + 1 =>
            LET e == trace'[Len(trace')]
                k == IF e.success THEN "success" ELSE "failed"
            IN  /\ stats'.total = stats.total + 1
                /\ stats'[k] = stats[k] + 1
                /\ stats'[OtherKey(k)] = stats[OtherKey(k)]
                /\ OrgCount(stats', e.org, k) = OrgCount(stats, e.org, k) + 1
                /\ OrgCount(stats', e.org, OtherKey(k)) = OrgCount(stats, e.org, OtherKey(k))
                /\ \A n \in OrgNames \ {e.org} :
                      /\ n \in DOMAIN stats'.orgs <=> n \in DOMAIN stats.orgs
                      /\ \A c \in {"success", "failed"} :
                            OrgCount(stats', n, c) = OrgCount(stats, n, c)]_vars

\* four calls: both organizations, both outcomes, one organization twice
C20_Witness ==
    /\ pc = "idle"
    /\ stats.total = 4
    /\ DOMAIN stats.orgs = OrgNames
    /\ stats.orgs["MIT"] = [success |-> 1, failed |-> 2]
    /\ stats.orgs["UCLA"] = [success |-> 1, failed |-> 0]

\* ---------------------------------------------------------------- C18
\* no thread is inside stats.record
NoRecordRunning == \A t \in Threads : threads[t].pc \in {"start", "done"}

\* C18: whenever no thread is inside stats.record, total and success + failed
\* have grown by the number of calls that returned, however the steps of the
\* calls were interleaved.
C18_NoLostUpdate ==
    NoRecordRunning =>
        /\ stats.total = Len(RecordCalls(trace))
        /\ stats.success + stats.failed = Len(RecordCalls(trace))

\* ---------------------------------------------------------------- C21
\* the session holds everything a run needs: a reference check_link found
\* valid, both names, an email with "@", a birth date of the form
\* YYYY-MM-DD and a list of search results that is not empty
CompleteSession(s) ==
    /\ {"url", "firstName", "lastName", "email", "birthDate", "uni_results"} \subseteq DOMAIN s
    /\ s["url"] \in checked
    /\ Contains(s["email"], <<"@">>)
    /\ DobMatches(s["birthDate"])
    /\ s["uni_results"] # <<>>

\* the events of the handler that ran last, by kind
Did(t, kind) == \E i \in 1..Len(t) : t[i].ev = kind

\* a handler starts a run only on a complete session, and a callback that
\* meets any other session starts no run and calls the verification service
\* not at all
C21_RunNeedsCompleteSession ==
    \A c \in Chats :
        /\ Did(trace', "run") =>
              /\ trace'[1].ev = "callback"
              /\ CompleteSession(Session(c))
        /\ (trace'[1].ev = "callback" /\ ~CompleteSession(Session(c))) =>
              /\ ~Did(trace', "run")
              /\ ~Did(trace', "check")
              /\ stats' = stats

\* after a handler that made a run or entered its except clause, the chat has
\* no session or the empty dict for one
C21_ResetAfterRunOrError ==
    \A c \in Chats :
        (Did(trace, "run") \/ Did(trace, "error")) => Session(c) = EmptyDict

\* C21: for any sequence of commands, messages and button callbacks of one
\* chat, verify is called only when the session holds a reference check_link
\* found valid, first name, last name, an email with "@", a birth date of the
\* form YYYY-MM-DD and a search result list; a callback on any other session
\* starts no run and makes no call to the verification service; and after
\* every run and every error of the callback the session is the empty dict.
C21_SessionGatesRun ==
    /\ [][C21_RunNeedsCompleteSession]_vars
    /\ []C21_ResetAfterRunOrError

\* the part of C21 about what starts a run, on its own
C21_RunNeedsCompleteSessionAlways == [][C21_RunNeedsCompleteSession]_vars

\* a run was made, on the second university of the list
C21_RunReached ==
    /\ Did(trace, "run")
    /\ trace[2].org.name = "UCLA"
    /\ result.success = TRUE

====
